---------------------------- MODULE Spec2Model ----------------------------
(***************************************************************************)
(* Model of the Agri AI + User API (src/main.py, src/database.py):         *)
(*   - the user store handlers add_user / get_users with the per-request   *)
(*     session dependency get_db and the startup hook on_startup;          *)
(*   - the /detect handler detect_crop_disease: validation, the outbound   *)
(*     call, extraction of the answer text from the response envelope,     *)
(*     the lenient fence/JSON parsing and the projection of the result.    *)
(*                                                                         *)
(* Texts are sequences of tokens (each token a character or a short        *)
(* literal), so that re.search, str.strip and json.loads are modelled by   *)
(* what they do on the text.  JSON values are tagged records.              *)
(***************************************************************************)
EXTENDS Integers, Sequences, FiniteSets, TLC

(***************************************************************************)
(* Bounds of the model.                                                    *)
(***************************************************************************)
MaxMembers == 2     \* members of an object the upstream model may answer
MaxImageLen == 1    \* length of an uploaded image
MaxRequests == 2    \* requests the server handles at the same time
MaxSessions == 3    \* sessions SessionLocal creates in one run

(***************************************************************************)
(* Tokens of a text.                                                       *)
(***************************************************************************)
BT == "BACKTICKS"      \* three backticks
JS == "json"
WS == " "
LB == "{"
RB == "}"
LK == "["
RK == "]"
COLON == ":"
COMMA == ","
Q == "QUOTE"           \* a double quote
NULLTOK == "null"
NumTokens == {"0.9", "5"}

(***************************************************************************)
(* JSON values as Python holds them after json.loads / response.json().    *)
(***************************************************************************)
None == [k |-> "null"]
Str(s) == [k |-> "str", s |-> s]
Num(n) == [k |-> "num", n |-> n]
Arr(e) == [k |-> "arr", e |-> e]
Obj(m) == [k |-> "obj", m |-> m]
Member(key, val) == [key |-> key, val |-> val]

IsDict(v) == v.k = "obj"
IsList(v) == v.k = "arr"
IsStr(v) == v.k = "str"

(***************************************************************************)
(* dict.get(key, default): the value of the last member with that key (a   *)
(* decoded object keeps the last of duplicate keys), else the default.     *)
(***************************************************************************)
DictGet(d, key, default) ==
  LET hits == {i \in 1..Len(d.m) : d.m[i].key = key}
  IN IF hits = {} THEN default
     ELSE d.m[CHOOSE i \in hits : \A j \in hits : j <= i].val

(***************************************************************************)
(* json.loads on a token text.                                             *)
(***************************************************************************)
RECURSIVE SkipWS(_, _)
SkipWS(t, i) == IF i <= Len(t) /\ t[i] = WS THEN SkipWS(t, i + 1) ELSE i

ParseFail == [ok |-> FALSE, v |-> None, i |-> 0]
ParseOk(v, i) == [ok |-> TRUE, v |-> v, i |-> i]

RECURSIVE CloseQuote(_, _)
CloseQuote(t, j) ==
  IF j > Len(t) THEN 0 ELSE IF t[j] = Q THEN j ELSE CloseQuote(t, j + 1)

ParseString(t, i) ==
  LET j == CloseQuote(t, i + 1)
  IN IF j = 0 THEN ParseFail ELSE ParseOk(Str(SubSeq(t, i + 1, j - 1)), j + 1)

RECURSIVE ParseValue(_, _)
RECURSIVE ParseMembers(_, _, _)
RECURSIVE ParseElements(_, _, _)

ParseValue(t, i) ==
  IF i > Len(t) THEN ParseFail
  ELSE IF t[i] = Q THEN ParseString(t, i)
  ELSE IF t[i] \in NumTokens THEN ParseOk(Num(t[i]), i + 1)
  ELSE IF t[i] = NULLTOK THEN ParseOk(None, i + 1)
  ELSE IF t[i] = LB THEN
    LET j == SkipWS(t, i + 1)
    IN IF j <= Len(t) /\ t[j] = RB THEN ParseOk(Obj(<<>>), j + 1)
       ELSE ParseMembers(t, j, <<>>)
  ELSE IF t[i] = LK THEN
    LET j == SkipWS(t, i + 1)
    IN IF j <= Len(t) /\ t[j] = RK THEN ParseOk(Arr(<<>>), j + 1)
       ELSE ParseElements(t, j, <<>>)
  ELSE ParseFail

ParseMembers(t, i, acc) ==
  IF i > Len(t) \/ t[i] # Q THEN ParseFail
  ELSE
    LET key == ParseString(t, i)
    IN IF ~key.ok THEN ParseFail
       ELSE
         LET c == SkipWS(t, key.i)
         IN IF c > Len(t) \/ t[c] # COLON THEN ParseFail
            ELSE
              LET val == ParseValue(t, SkipWS(t, c + 1))
              IN IF ~val.ok THEN ParseFail
                 ELSE
                   LET n == SkipWS(t, val.i)
                       acc2 == Append(acc, Member(key.v.s, val.v))
                   IN IF n > Len(t) THEN ParseFail
                      ELSE IF t[n] = RB THEN ParseOk(Obj(acc2), n + 1)
                      ELSE IF t[n] = COMMA
                        THEN ParseMembers(t, SkipWS(t, n + 1), acc2)
                      ELSE ParseFail

ParseElements(t, i, acc) ==
  LET val == ParseValue(t, i)
  IN IF ~val.ok THEN ParseFail
     ELSE
       LET n == SkipWS(t, val.i)
           acc2 == Append(acc, val.v)
       IN IF n > Len(t) THEN ParseFail
          ELSE IF t[n] = RK THEN ParseOk(Arr(acc2), n + 1)
          ELSE IF t[n] = COMMA THEN ParseElements(t, SkipWS(t, n + 1), acc2)
          ELSE ParseFail

\* json.loads(s): one value, whitespace around it, nothing after it;
\* ok = FALSE stands for json.JSONDecodeError.
json_loads(t) ==
  LET r == ParseValue(t, SkipWS(t, 1))
  IN IF ~r.ok THEN ParseFail
     ELSE IF SkipWS(t, r.i) # Len(t) + 1 THEN ParseFail
     ELSE r

(***************************************************************************)
(* str.strip(): leading and trailing whitespace removed.                   *)
(***************************************************************************)
RECURSIVE LastNonWS(_, _)
LastNonWS(t, j) == IF j >= 1 /\ t[j] = WS THEN LastNonWS(t, j - 1) ELSE j

strip(t) == SubSeq(t, SkipWS(t, 1), LastNonWS(t, Len(t)))

(***************************************************************************)
(* re.search of the fence pattern (three backticks, json, whitespace, a   *)
(* group from an opening brace to a closing brace, whitespace, three       *)
(* backticks) with re.DOTALL: the leftmost fence opener after which, past  *)
(* whitespace, a brace opens a group that runs greedily to the last        *)
(* closing brace that is followed, past whitespace, by three backticks.    *)
(***************************************************************************)
GroupEnds(t, p) ==
  {q \in (p + 1)..Len(t) :
      /\ t[q] = RB
      /\ SkipWS(t, q + 1) <= Len(t)
      /\ t[SkipWS(t, q + 1)] = BT}

MatchesAt(t, i) ==
  /\ i + 1 <= Len(t)
  /\ t[i] = BT
  /\ t[i + 1] = JS
  /\ LET p == SkipWS(t, i + 2)
     IN p <= Len(t) /\ t[p] = LB /\ GroupEnds(t, p) # {}

re_search(t) ==
  LET starts == {i \in 1..Len(t) : MatchesAt(t, i)}
  IN IF starts = {} THEN [matched |-> FALSE, group |-> <<>>]
     ELSE
       LET i == CHOOSE x \in starts : \A y \in starts : x <= y
           p == SkipWS(t, i + 2)
           q == CHOOSE x \in GroupEnds(t, p) : \A y \in GroupEnds(t, p) : y <= x
       IN [matched |-> TRUE, group |-> SubSeq(t, p, q)]

(***************************************************************************)
(* Python evaluation results: a value, or the exception that was raised.   *)
(***************************************************************************)
Val(v) == [exc |-> "", v |-> v]
Exc(name) == [exc |-> name, v |-> None]

\* x.get(key, default): only a dict has .get
PyGet(x, key, default) ==
  IF x.exc # "" THEN x
  ELSE IF IsDict(x.v) THEN Val(DictGet(x.v, <<key>>, default))
  ELSE Exc("AttributeError")

\* x[0]
PyIndex0(x) ==
  IF x.exc # "" THEN x
  ELSE IF IsList(x.v)
    THEN IF Len(x.v.e) = 0 THEN Exc("IndexError") ELSE Val(x.v.e[1])
  ELSE IF IsDict(x.v) THEN Exc("KeyError")
  ELSE IF IsStr(x.v)
    THEN IF Len(x.v.s) = 0 THEN Exc("IndexError") ELSE Val(Str(<<x.v.s[1]>>))
  ELSE Exc("TypeError")

(***************************************************************************)
(* DetectResponse: the fields of the result detect_crop_disease returns.   *)
(***************************************************************************)
DetectResponse ==
  {"crop_en", "crop_hi", "disease_en", "disease_hi", "confidence",
   "recommendations_en", "recommendations_hi", "medicines"}

(***************************************************************************)
(* Step 1 of detect_crop_disease: "if not image_bytes" rejects the image.  *)
(* The image is modelled by its length; the mime type is not looked at.    *)
(***************************************************************************)
\* faulty variant: a whitelist of mime types
validate_image_whitelist(image_len, mime_type) ==
  image_len # 0 /\ mime_type = "image/png"

validate_image(image_len, mime_type) == image_len # 0

(***************************************************************************)
(* Step 7: the answer text at candidates[0].content.parts[0].text, with    *)
(* the defaults [{}], {}, [{}] and "" of the four .get calls.              *)
(***************************************************************************)
extract_text(data) ==
  PyGet(
    PyIndex0(
      PyGet(
        PyGet(
          PyIndex0(PyGet(Val(data), "candidates", Arr(<<Obj(<<>>)>>))),
          "content", Obj(<<>>)),
        "parts", Arr(<<Obj(<<>>)>>))),
    "text", Str(<<>>))

(***************************************************************************)
(* Step 8: the fence is searched for, else the text is stripped; the       *)
(* clean text is decoded; json.JSONDecodeError alone is caught and gives   *)
(* {"raw_text": text_resp}.  re.search on a text that is no str raises     *)
(* TypeError, which the except clause does not catch.                      *)
(***************************************************************************)
clean_json(text) ==
  LET match == re_search(text)
  IN IF match.matched THEN match.group ELSE strip(text)

\* faulty variant: the decode error is not caught
parse_json_unsafely(text_resp) ==
  IF ~IsStr(text_resp) THEN Exc("TypeError")
  ELSE
    LET r == json_loads(clean_json(text_resp.s))
    IN IF r.ok THEN Val(r.v) ELSE Exc("JSONDecodeError")

parse_json_safely(text_resp) ==
  IF ~IsStr(text_resp) THEN Exc("TypeError")
  ELSE
    LET r == json_loads(clean_json(text_resp.s))
    IN IF r.ok THEN Val(r.v)
       ELSE Val(Obj(<<Member(<<"raw_text">>, text_resp)>>))

(***************************************************************************)
(* Step 9: result.get(field) for each field of the response; a decoded     *)
(* value that is no dict has no .get.                                      *)
(***************************************************************************)
NoResult == [f \in DetectResponse |-> None]

project_result(result) ==
  IF IsDict(result)
    THEN [exc |-> "", v |-> [f \in DetectResponse |-> DictGet(result, <<f>>, None)]]
    ELSE [exc |-> "AttributeError", v |-> NoResult]

(***************************************************************************)
(* What a request ends with: the returned result (HTTP 200), an            *)
(* HTTPException (status_code, detail), or an exception that escapes the   *)
(* handler (HTTP 500).  decoded is the local variable "result".            *)
(***************************************************************************)
Returned(decoded, result) ==
  [kind |-> "ok", status_code |-> 200, detail |-> <<>>, exc |-> "",
   decoded |-> decoded, result |-> result]
HTTPException(status_code, detail) ==
  [kind |-> "http", status_code |-> status_code, detail |-> detail, exc |-> "",
   decoded |-> None, result |-> NoResult]
Raised(exc) ==
  [kind |-> "exc", status_code |-> 500, detail |-> <<>>, exc |-> exc,
   decoded |-> None, result |-> NoResult]
NoOutcome ==
  [kind |-> "none", status_code |-> 0, detail |-> <<>>, exc |-> "",
   decoded |-> None, result |-> NoResult]

\* Steps 8 and 9 on an extracted text
handle_text(text_resp) ==
  LET parsed == parse_json_safely(text_resp)
  IN IF parsed.exc # "" THEN Raised(parsed.exc)
     ELSE
       LET projected == project_result(parsed.v)
       IN IF projected.exc # "" THEN Raised(projected.exc)
          ELSE Returned(parsed.v, projected.v)

(***************************************************************************)
(* detect_crop_disease after the outbound call: the status check, then     *)
(* response.json() (which raises on a body that is not JSON), then steps   *)
(* 7 to 9.  The error detail is "Gemini Error: " followed by the body.     *)
(***************************************************************************)
handle_response(response) ==
  IF response.status_code # 200
    THEN HTTPException(502, <<"Gemini Error: ", response.body>>)
  ELSE IF ~response.body.isJson THEN Raised("JSONDecodeError")
  ELSE
    LET text_resp == extract_text(response.body.data)
    IN IF text_resp.exc # "" THEN Raised(text_resp.exc)
       ELSE handle_text(text_resp.v)

(***************************************************************************)
(* The upstream model's side: how an answer is written as text.            *)
(***************************************************************************)
RECURSIVE Render(_)
RECURSIVE RenderMembers(_, _)
RECURSIVE RenderElements(_, _)

Render(v) ==
  IF v.k = "str" THEN <<Q>> \o v.s \o <<Q>>
  ELSE IF v.k = "num" THEN <<v.n>>
  ELSE IF v.k = "null" THEN <<NULLTOK>>
  ELSE IF v.k = "arr" THEN <<LK>> \o RenderElements(v.e, 1) \o <<RK>>
  ELSE <<LB>> \o RenderMembers(v.m, 1) \o <<RB>>

RenderMembers(m, i) ==
  IF i > Len(m) THEN <<>>
  ELSE (IF i > 1 THEN <<COMMA>> ELSE <<>>)
       \o <<Q>> \o m[i].key \o <<Q, COLON>> \o Render(m[i].val)
       \o RenderMembers(m, i + 1)

RenderElements(e, i) ==
  IF i > Len(e) THEN <<>>
  ELSE (IF i > 1 THEN <<COMMA>> ELSE <<>>) \o Render(e[i])
       \o RenderElements(e, i + 1)

\* A text wrapped in a json code fence
Fenced(t) == <<BT, JS, WS>> \o t \o <<WS, BT>>

SeqsUpTo(S, n) == UNION {[1..k -> S] : k \in 0..n}

(***************************************************************************)
(* Answers the upstream model may give: objects of up to MaxMembers        *)
(* members (fields of the schema, a repeated key, a null, a text that      *)
(* itself quotes a fenced object, medicines in either order), and texts    *)
(* that are no object.                                                     *)
(***************************************************************************)
Mancozeb == Obj(<<Member(<<"name_en">>, Str(<<"Mancozeb">>))>>)
Copper ==
  Obj(<<Member(<<"name_en">>, Str(<<"Copper">>)),
        Member(<<"dose_en">>, Str(<<"2g/L">>))>>)
MedicineLists == {<<>>, <<Mancozeb>>, <<Mancozeb, Copper>>, <<Copper, Mancozeb>>}

AnswerMembers ==
  {Member(<<"crop_en">>, Str(<<"Rice">>)),
   Member(<<"crop_en">>, Str(<<"Wheat">>)),
   Member(<<"confidence">>, Num("0.9")),
   Member(<<"disease_hi">>, None),
   Member(<<"recommendations_en">>, Str(<<"Use", WS, BT, JS, WS, LB, RB, WS, BT>>))}
  \cup {Member(<<"medicines">>, Arr(ms)) : ms \in MedicineLists}

AnswerObjects == {Obj(m) : m \in SeqsUpTo(AnswerMembers, MaxMembers)}

OtherTexts ==
  {<<>>,
   <<WS>>,
   <<"The", WS, "plant", WS, "is", WS, "healthy">>,
   <<LK, "5", COMMA, "5", RK>>,
   <<LK, LB, RB, RK>>,
   <<"5">>,
   <<NULLTOK>>,
   <<Q, "Rice", Q>>,
   <<LB, "crop_en", COLON, "Rice", RB>>,
   <<LB, Q, "crop_en", Q, COLON, Q, "Rice", Q>>,
   <<LB, Q, "crop_en", Q, COLON, Q, "Rice", Q, RB, WS, "Done">>}

PlainTexts == {Render(o) : o \in AnswerObjects} \cup OtherTexts

\* each text as it is, padded, fenced, and fenced inside prose
Texts ==
  PlainTexts
  \cup {<<WS>> \o t \o <<WS>> : t \in PlainTexts}
  \cup {Fenced(t) : t \in PlainTexts}
  \cup {<<"Here", WS>> \o Fenced(t) \o <<WS, "Done">> : t \in PlainTexts}

(***************************************************************************)
(* Response envelopes: the full path to a text, and every way an element   *)
(* on the path is missing, empty or of another kind.                       *)
(***************************************************************************)
PartOf(text) == Obj(<<Member(<<"text">>, text)>>)
ContentOf(parts) == Obj(<<Member(<<"parts">>, parts)>>)
CandidateOf(content) == Obj(<<Member(<<"content">>, content)>>)
EnvelopeOf(candidates) == Obj(<<Member(<<"candidates">>, candidates)>>)

FullEnvelope(t) ==
  EnvelopeOf(Arr(<<CandidateOf(ContentOf(Arr(<<PartOf(Str(t))>>)))>>))

SampleText == Render(Obj(<<Member(<<"crop_en">>, Str(<<"Rice">>))>>))

Parts == {Obj(<<>>), PartOf(Str(SampleText)), PartOf(Num("5")), PartOf(None)}
Contents ==
  {Obj(<<>>), ContentOf(Arr(<<>>)), ContentOf(None)}
  \cup {ContentOf(Arr(<<p>>)) : p \in Parts}
Candidates == {Obj(<<>>), CandidateOf(None)} \cup {CandidateOf(c) : c \in Contents}
ShapeEnvelopes ==
  {Obj(<<>>), Obj(<<Member(<<"promptFeedback">>, Obj(<<>>))>>),
   EnvelopeOf(Arr(<<>>)), EnvelopeOf(None), Arr(<<>>)}
  \cup {EnvelopeOf(Arr(<<c>>)) : c \in Candidates}

JsonBody(data) == [isJson |-> TRUE, data |-> data]
NotJsonBody == [isJson |-> FALSE, data |-> None]

Bodies ==
  {JsonBody(FullEnvelope(t)) : t \in Texts}
  \cup {JsonBody(e) : e \in ShapeEnvelopes}
  \cup {NotJsonBody}
SampleBodies == {JsonBody(FullEnvelope(SampleText)), NotJsonBody}

StatusCodes == {200, 201, 204, 404, 500}

Response(status_code, body) == [status_code |-> status_code, body |-> body]
NoResponse == Response(0, NotJsonBody)

\* every body with status 200; the sample bodies with every status
Responses ==
  {Response(200, b) : b \in Bodies}
  \cup {Response(s, b) : s \in StatusCodes, b \in SampleBodies}
SampleResponses ==
  {Response(200, JsonBody(FullEnvelope(SampleText))), Response(500, NotJsonBody)}

MimeTypes == {"image/png", "text/plain"}

(***************************************************************************)
(* The user store.                                                         *)
(***************************************************************************)
\* the (name, email) pairs requests carry
Callers == {<<"ann", "a@x.in">>, <<"bob", "b@x.in">>}

User(id, name, email) == [id |-> id, name |-> name, email |-> email]
NoRequest == [op |-> "none", name |-> "", email |-> ""]

\* the id the store generates for a new row (models.py is not under src/)
generated_id(seq) == seq

\* Base.metadata.create_all(bind=engine): creates the tables that are missing
create_all(existing) == existing \cup {"users"}

\* SessionLocal(): a new session each call
SessionLocal(counter) == counter

\* faulty variant: a row with the same name and email is overwritten
upsert_user(table, id, name, email) ==
  LET same == {i \in 1..Len(table) : table[i].name = name /\ table[i].email = email}
  IN IF same = {} THEN Append(table, User(id, name, email))
     ELSE [i \in 1..Len(table) |->
             IF i \in same THEN User(id, name, email) ELSE table[i]]

\* db.add(user); db.commit(): one INSERT of the new object
insert_user(table, id, name, email) == Append(table, User(id, name, email))

\* faulty variant: only the first row is read
query_first(table) == IF Len(table) = 0 THEN table ELSE <<table[1]>>

\* db.query(User).all()
query_all(table) == table

\* faulty variant: the session is closed only when the handler returned
get_db_no_finally(open, session, how) ==
  IF how = "returned" THEN open \ {session} ELSE open

\* the finally clause of get_db: db.close() whatever the handler did
get_db_finally(open, session, how) == open \ {session}

VARIABLES
  started,      \* on_startup has run in this process
  tables,       \* tables of the database
  users,        \* rows of the users table, in insertion order
  idSeq,        \* the store's id sequence: the next id it generates
  pc,           \* per request slot: free, open, committed, returned, raised
  req,          \* per slot: the operation and its parameters
  db,           \* per slot: the session get_db yielded (0: none)
  resp,         \* per slot: the user add_user answers with / the rows listed
  last,         \* how the request that ended last ended
  sessions,     \* sessions that are open
  sessionCount, \* sessions created so far
  acked,        \* users that add_user has answered with
  dpc,          \* /detect: idle, awaiting (the outbound call), done
  image,        \* /detect: length of the uploaded image
  mime,         \* /detect: declared content type
  calls,        \* /detect: outbound calls made for the request
  upstream,     \* /detect: the upstream response
  outcome       \* /detect: what the request ended with

storeVars ==
  <<started, tables, users, idSeq, pc, req, db, resp, last, sessions,
    sessionCount, acked>>
detectVars == <<dpc, image, mime, calls, upstream, outcome>>
vars == <<storeVars, detectVars>>

Slots == 1..MaxRequests

Init ==
  /\ started = FALSE
  /\ tables = {}
  /\ users = <<>>
  /\ idSeq = 1
  /\ pc = [r \in Slots |-> "free"]
  /\ req = [r \in Slots |-> NoRequest]
  /\ db = [r \in Slots |-> 0]
  /\ resp = [r \in Slots |-> <<>>]
  /\ last = "none"
  /\ sessions = {}
  /\ sessionCount = 0
  /\ acked = {}
  /\ dpc = "idle"
  /\ image = 0
  /\ mime = ""
  /\ calls = 0
  /\ upstream = NoResponse
  /\ outcome = NoOutcome

\* requests being handled
InFlight ==
  Cardinality({r \in Slots : pc[r] # "free"}) + (IF dpc = "idle" THEN 0 ELSE 1)

(***************************************************************************)
(* The startup hook: it runs when the process starts, which happens again  *)
(* whenever the service is restarted with no request in flight (the        *)
(* database outlives the process).                                         *)
(***************************************************************************)
on_startup ==
  /\ InFlight = 0
  /\ started' = TRUE
  /\ tables' = create_all(tables)
  /\ UNCHANGED <<users, idSeq, pc, req, db, resp, last, sessions,
                 sessionCount, acked, detectVars>>

(***************************************************************************)
(* get_db up to its yield: a request enters and gets a session.  Workers   *)
(* are interchangeable: the request takes the first free slot.             *)
(***************************************************************************)
get_db_enter(r, op, name, email) ==
  /\ started
  /\ pc[r] = "free"
  /\ \A q \in Slots : q < r => pc[q] # "free"
  /\ InFlight < MaxRequests
  /\ sessionCount < MaxSessions
  /\ LET session == SessionLocal(sessionCount + 1)
     IN /\ db' = [db EXCEPT ![r] = session]
        /\ sessions' = sessions \cup {session}
  /\ sessionCount' = sessionCount + 1
  /\ pc' = [pc EXCEPT ![r] = "open"]
  /\ req' = [req EXCEPT ![r] = [op |-> op, name |-> name, email |-> email]]
  /\ resp' = [resp EXCEPT ![r] = <<>>]
  /\ UNCHANGED <<started, tables, users, idSeq, last, acked, detectVars>>

(***************************************************************************)
(* add_user: db.add + db.commit inserts the row, or fails and raises (a    *)
(* constraint of the store, a lost connection); db.refresh reads the       *)
(* stored row back, or fails and raises.                                   *)
(***************************************************************************)
add_user_commit(r) ==
  /\ pc[r] = "open"
  /\ req[r].op = "add_user"
  /\ db[r] \in sessions
  /\ "users" \in tables
  /\ \/ /\ users' = insert_user(users, generated_id(idSeq), req[r].name, req[r].email)
        /\ idSeq' = idSeq + 1
        /\ resp' = [resp EXCEPT ![r] = <<generated_id(idSeq)>>]
        /\ pc' = [pc EXCEPT ![r] = "committed"]
     \/ /\ pc' = [pc EXCEPT ![r] = "raised"]
        /\ UNCHANGED <<users, idSeq, resp>>
  /\ UNCHANGED <<started, tables, req, db, last, sessions, sessionCount,
                 acked, detectVars>>

add_user_refresh(r) ==
  /\ pc[r] = "committed"
  /\ \/ LET rows == {i \in 1..Len(users) : users[i].id = resp[r][1]}
            user == users[CHOOSE i \in rows : TRUE]
        IN /\ rows # {}
           /\ resp' = [resp EXCEPT ![r] = <<user>>]
           /\ acked' = acked \cup {user}
           /\ pc' = [pc EXCEPT ![r] = "returned"]
     \/ /\ pc' = [pc EXCEPT ![r] = "raised"]
        /\ UNCHANGED <<resp, acked>>
  /\ UNCHANGED <<started, tables, users, idSeq, req, db, last, sessions,
                 sessionCount, detectVars>>

(***************************************************************************)
(* get_users: all rows, or the query fails and raises.                     *)
(***************************************************************************)
get_users(r) ==
  /\ pc[r] = "open"
  /\ req[r].op = "get_users"
  /\ db[r] \in sessions
  /\ \/ /\ resp' = [resp EXCEPT ![r] = query_all(users)]
        /\ pc' = [pc EXCEPT ![r] = "returned"]
     \/ /\ pc' = [pc EXCEPT ![r] = "raised"]
        /\ UNCHANGED resp
  /\ UNCHANGED <<started, tables, users, idSeq, req, db, last, sessions,
                 sessionCount, acked, detectVars>>

(***************************************************************************)
(* get_db after its yield: the handler returned or raised, the finally     *)
(* clause runs and the request ends.                                       *)
(***************************************************************************)
get_db_exit(r) ==
  /\ pc[r] \in {"returned", "raised"}
  /\ sessions' = get_db_finally(sessions, db[r], pc[r])
  /\ last' = pc[r]
  /\ pc' = [pc EXCEPT ![r] = "free"]
  /\ req' = [req EXCEPT ![r] = NoRequest]
  /\ db' = [db EXCEPT ![r] = 0]
  /\ resp' = [resp EXCEPT ![r] = <<>>]
  /\ UNCHANGED <<started, tables, users, idSeq, sessionCount, acked, detectVars>>

(***************************************************************************)
(* detect_crop_disease.  Up to the outbound call: the image is read and    *)
(* validated; an empty image ends the request with HTTP 400, any other is  *)
(* sent on.  Then the awaited call answers, or fails in transport (the 90  *)
(* second timeout, a connection error) and the exception escapes.          *)
(***************************************************************************)
detect_receive(image_len, mime_type) ==
  /\ started
  /\ dpc = "idle"
  /\ InFlight < MaxRequests
  /\ image_len \in 0..MaxImageLen
  /\ image' = image_len
  /\ mime' = mime_type
  /\ upstream' = NoResponse
  /\ IF validate_image(image_len, mime_type)
       THEN /\ dpc' = "awaiting"
            /\ calls' = 1
            /\ outcome' = NoOutcome
       ELSE /\ dpc' = "done"
            /\ calls' = 0
            /\ outcome' = HTTPException(400, <<"Empty image file received.">>)
  /\ UNCHANGED storeVars

detect_respond(responses) ==
  /\ dpc = "awaiting"
  /\ \E response \in responses :
       /\ upstream' = response
       /\ outcome' = handle_response(response)
  /\ dpc' = "done"
  /\ UNCHANGED <<image, mime, calls, storeVars>>

detect_transport_error ==
  /\ dpc = "awaiting"
  /\ outcome' = Raised("httpx.TransportError")
  /\ dpc' = "done"
  /\ UNCHANGED <<image, mime, calls, upstream, storeVars>>

detect_end ==
  /\ dpc = "done"
  /\ dpc' = "idle"
  /\ image' = 0
  /\ mime' = ""
  /\ calls' = 0
  /\ upstream' = NoResponse
  /\ outcome' = NoOutcome
  /\ UNCHANGED storeVars

(***************************************************************************)
(* The whole service, with a sample of upstream responses.                 *)
(***************************************************************************)
Next ==
  \/ on_startup
  \/ \E r \in Slots, c \in Callers : get_db_enter(r, "add_user", c[1], c[2])
  \/ \E r \in Slots : get_db_enter(r, "get_users", "", "")
  \/ \E r \in Slots : add_user_commit(r)
  \/ \E r \in Slots : add_user_refresh(r)
  \/ \E r \in Slots : get_users(r)
  \/ \E r \in Slots : get_db_exit(r)
  \/ \E n \in {0, MaxImageLen} : detect_receive(n, "image/png")
  \/ detect_respond(SampleResponses)
  \/ detect_transport_error
  \/ detect_end

Spec == Init /\ [][Next]_vars

(***************************************************************************)
(* The detection gateway alone, with every upstream response.              *)
(***************************************************************************)
NextDetect ==
  \/ on_startup
  \/ \E n \in 0..MaxImageLen, m \in MimeTypes : detect_receive(n, m)
  \/ detect_respond(Responses)
  \/ detect_transport_error
  \/ detect_end

SpecDetect == Init /\ [][NextDetect]_vars

(***************************************************************************)
(* Properties of the detection gateway.                                    *)
(***************************************************************************)
Answered == dpc = "done" /\ upstream.status_code \in StatusCodes
Success == upstream.status_code \in 200..299
AnsweredOk == Answered /\ upstream.status_code = 200 /\ upstream.body.isJson

\* the answer text Step 7 finds in the upstream response
Extracted == extract_text(upstream.body.data)
HasText == AnsweredOk /\ Extracted.exc = "" /\ IsStr(Extracted.v)

AllAbsent(result) == \A f \in DetectResponse : result[f] = None

\* C1: every upstream response whose status is not 2xx ends Detect with an
\* UpstreamError (HTTP 502) that carries the raw upstream body and the
\* original upstream status: two responses with the same body and different
\* statuses give different errors; no such response is processed as a
\* diagnosis.
C1_UpstreamErrorKeepsStatus ==
  (Answered /\ ~Success) =>
    /\ outcome.kind = "http"
    /\ outcome.status_code = 502
    /\ Len(outcome.detail) = 2
    /\ outcome.detail[2] = upstream.body
    /\ \A s \in StatusCodes \ (200..299) :
         s # upstream.status_code =>
           handle_response(Response(s, upstream.body)) # outcome

\* C2: every upstream response with a success status ends Detect with a
\* returned DetectionResult, whatever its envelope and answer text: nothing
\* is raised.
C2_SuccessAlwaysReturns ==
  (Answered /\ Success) => outcome.kind = "ok"

\* C3 as stated: when the extracted text is not valid JSON, Detect returns a
\* result with exactly one populated field, which carries the raw text.
C3_RawTextReturned ==
  (HasText /\ ~json_loads(Extracted.v.s).ok) =>
    /\ outcome.kind = "ok"
    /\ \E f \in DOMAIN outcome.result :
         /\ outcome.result[f] = Extracted.v
         /\ \A g \in DOMAIN outcome.result \ {f} : outcome.result[g] = None

\* C3 as amended: when decoding the cleaned text (the fenced group if the
\* fence pattern matches, else the stripped text) fails, Detect does not
\* raise; the decoded object degrades to {"raw_text": text} with the text
\* verbatim, and every field of the returned result is absent: the raw text
\* is not part of what Detect returns.
C3_DegradesToEmptyResult ==
  (HasText /\ ~json_loads(clean_json(Extracted.v.s)).ok) =>
    /\ outcome.kind = "ok"
    /\ outcome.decoded = Obj(<<Member(<<"raw_text">>, Extracted.v)>>)
    /\ AllAbsent(outcome.result)

C3_Witness ==
  /\ HasText
  /\ Extracted.v.s = <<"The", WS, "plant", WS, "is", WS, "healthy">>
  /\ outcome.kind = "ok"
  /\ AllAbsent(outcome.result)

\* an expected element on the path candidates[0].content.parts[0].text is
\* absent: a key is missing or a list is empty
HasKey(d, key) == \E i \in 1..Len(d.m) : d.m[i].key = <<key>>

TextAbsentIn(part) == IsDict(part) /\ ~HasKey(part, "text")
PartsAbsentIn(content) ==
  IsDict(content) /\
    \/ ~HasKey(content, "parts")
    \/ LET parts == DictGet(content, <<"parts">>, None)
       IN IsList(parts) /\ (Len(parts.e) = 0 \/ TextAbsentIn(parts.e[1]))
ContentAbsentIn(candidate) ==
  IsDict(candidate) /\
    \/ ~HasKey(candidate, "content")
    \/ PartsAbsentIn(DictGet(candidate, <<"content">>, None))
ElementAbsent(data) ==
  IsDict(data) /\
    \/ ~HasKey(data, "candidates")
    \/ LET candidates == DictGet(data, <<"candidates">>, None)
       IN IsList(candidates) /\
            (Len(candidates.e) = 0 \/ ContentAbsentIn(candidates.e[1]))

\* C4: whenever an expected element on the path to the answer text is absent
\* (candidates missing or empty, content missing, parts missing or empty,
\* text missing), extraction yields the empty string and does not fail.
C4_ExtractionNeverFails ==
  (AnsweredOk /\ ElementAbsent(upstream.body.data)) =>
    /\ Extracted = Val(Str(<<>>))
    /\ outcome.kind = "ok"

\* C5: a zero-length image is rejected with HTTP 400 at validation, whatever
\* its mime type, and no outbound call is made for it; a non-empty image is
\* never rejected by validation, whatever its mime type: the call is made.
C5_EmptyImageRejected ==
  dpc # "idle" =>
    IF image = 0
      THEN /\ dpc = "done"
           /\ outcome.kind = "http"
           /\ outcome.status_code = 400
           /\ calls = 0
      ELSE /\ calls = 1
           /\ ~(outcome.kind = "http" /\ outcome.status_code = 400)

C5_Witness ==
  /\ dpc = "done"
  /\ image = 0
  /\ mime = "text/plain"
  /\ outcome.status_code = 400

\* C6: when the answer text is a valid JSON object, every field of the
\* returned result equals the same-named field of the decoded object
\* (medicines with its length and order), and a field the object lacks is
\* absent.
C6_FieldsEqualDecoded ==
  (HasText /\ json_loads(Extracted.v.s).ok /\ IsDict(json_loads(Extracted.v.s).v)) =>
    /\ outcome.kind = "ok"
    /\ \A f \in DetectResponse :
         outcome.result[f] = DictGet(json_loads(Extracted.v.s).v, <<f>>, None)

\* C7: for every answer text T, Detect on T wrapped in a json code fence
\* ends as Detect on T itself does, with the same result.
C7_FencedEqualsUnfenced ==
  HasText =>
    LET plain == handle_text(Extracted.v)
        fenced == handle_text(Str(Fenced(Extracted.v.s)))
    IN /\ outcome = plain
       /\ fenced.kind = plain.kind
       /\ fenced.result = plain.result

(***************************************************************************)
(* Properties of the user store.                                           *)
(***************************************************************************)
Rows(table) == {table[i] : i \in 1..Len(table)}

\* C8: add_user answers with the given name and email and a generated
\* (non-null) id, and every get_users that runs after add_user has answered
\* lists that user, with that id, whatever requests ran in between.
C8_ListIncludesAdded ==
  [][\A r \in Slots :
       /\ (pc[r] = "committed" /\ pc'[r] = "returned") =>
            /\ resp'[r][1].name = req[r].name
            /\ resp'[r][1].email = req[r].email
            /\ resp'[r][1].id # 0
       /\ (pc[r] = "open" /\ req[r].op = "get_users" /\ pc'[r] = "returned") =>
            \A u \in acked : u \in Rows(resp'[r])]_vars

C8_Witness ==
  \E r \in Slots :
    /\ pc[r] = "returned"
    /\ req[r].op = "get_users"
    /\ Cardinality(acked) >= 2
    /\ acked \subseteq Rows(resp[r])

\* C9: the users table is append-only: a successful add_user adds exactly
\* one new row, with a new id, also when a row with the same name and email
\* exists; ids are pairwise distinct; no other step (get_users, /detect,
\* the startup hook, the end of a request) changes the table.
C9_AppendOnly ==
  [][/\ \A i \in 1..Len(users) : i <= Len(users') /\ users'[i] = users[i]
     /\ IF \E r \in Slots : pc[r] = "open" /\ pc'[r] = "committed"
          THEN /\ Len(users') = Len(users) + 1
               /\ \E r \in Slots :
                    /\ pc[r] = "open" /\ pc'[r] = "committed"
                    /\ users'[Len(users')].name = req[r].name
                    /\ users'[Len(users')].email = req[r].email
          ELSE users' = users
     /\ \A i, j \in 1..Len(users') : i # j => users'[i].id # users'[j].id]_vars

C9_Witness ==
  /\ started
  /\ \E i, j \in 1..Len(users) :
       /\ i < j
       /\ users[i].name = users[j].name
       /\ users[i].email = users[j].email
       /\ users[i].id # users[j].id

\* C10: a request that uses the store holds an open session of its own from
\* entry to exit, no two requests hold the same session, and no session is
\* open outside a request: it is closed when its request ends, also when
\* the handler raised, so that none is open once all requests have ended.
C10_SessionsScoped ==
  /\ \A r \in Slots : pc[r] # "free" => db[r] \in sessions
  /\ \A r, q \in Slots : (r # q /\ pc[r] # "free" /\ pc[q] # "free") => db[r] # db[q]
  /\ sessions \subseteq {db[r] : r \in {q \in Slots : pc[q] # "free"}}

C10_Witness ==
  /\ \A r \in Slots : pc[r] = "free"
  /\ last = "raised"
  /\ sessionCount >= 2
  /\ sessions = {}

=============================================================================
